---- MODULE Spec2Model ----
(***************************************************************************)
(* UAE-FOODIES (src/index.tsx): the recommendation client                  *)
(* (fetchRecommendations with its reply normalisation) and the search      *)
(* lifecycle kept by the App component (executeSearch, handleSearch,       *)
(* handleGPSRequest, the criteria handlers and the loading-steps effect).  *)
(*                                                                         *)
(* Texts are sequences of lexemes.  A reply of the generation service is   *)
(* a sequence of the lexemes                                               *)
(*   "["  "]"  ","   the JSON punctuation                                  *)
(*   "O"             the object literal {}                                 *)
(*   "1"             a digit (adjacent digits form one number)             *)
(*   "s"             the string literal "s"                                *)
(*   "f"             the string literal whose content is ```               *)
(*   "e"             the string literal ""                                 *)
(*   "n"             the literal null                                      *)
(*   "x"             a letter of prose                                     *)
(*   " "             a whitespace character                                *)
(*   "F"             the fence marker ```                                  *)
(*   "J"             the word json                                         *)
(*                                                                         *)
(* A handler runs to completion: the state updates it queues, and the      *)
(* effect they trigger, are one step.  What a handler awaits (the position *)
(* request, the outbound call) is outstanding between two steps.  The      *)
(* markup the component renders is not modelled beyond the conditions      *)
(* under which its controls exist and its result grid is shown.            *)
(***************************************************************************)
EXTENDS Integers, Sequences, FiniteSets, TLC

\* ------------------------------------------------------------------------
\* Bounds of the model
\* ------------------------------------------------------------------------

\* number of user commands in a run: searches started (handleSearch,
\* handleGPSRequest) plus criteria edits (city, cuisine, search input)
MaxCommands == 3

\* length, in lexemes, of the reply texts a run of the normaliser is given
\* (before they are wrapped)
MaxReplyLen == 3

\* length, in characters, of the search-input values a run of the query
\* construction is given
MaxQueryLen == 3

\* ------------------------------------------------------------------------
\* JSON values and JSON.parse
\* ------------------------------------------------------------------------

\* a JavaScript value as JSON.parse produces it: kind, the elements of an
\* array, and for a number its digit count / for a string its length
JVal(k, its, n) == [kind |-> k, items |-> its, len |-> n]

JArray(its) == JVal("array", its, 0)

EmptyArray == JArray(<<>>)

Min(a, b) == IF a < b THEN a ELSE b

Max(a, b) == IF a < b THEN b ELSE a

\* first position >= i of t that holds no whitespace (Len(t)+1 when none)
RECURSIVE SkipWs(_, _)
SkipWs(t, i) ==
  IF i <= Len(t) /\ t[i] = " " THEN SkipWs(t, i + 1) ELSE i

\* first position >= i of t that holds no digit
RECURSIVE SkipDigits(_, _)
SkipDigits(t, i) ==
  IF i <= Len(t) /\ t[i] = "1" THEN SkipDigits(t, i + 1) ELSE i

ParseFail == [ok |-> FALSE, val |-> JVal("undefined", <<>>, 0), next |-> 0]

ParseOk(v, nx) == [ok |-> TRUE, val |-> v, next |-> nx]

\* the JSON grammar: one value starting at position i, whitespace skipped
RECURSIVE ParseValue(_, _), ParseElems(_, _, _)
ParseValue(t, i) ==
  LET p == SkipWs(t, i) IN
  IF p > Len(t) THEN ParseFail
  ELSE IF t[p] = "O" THEN ParseOk(JVal("object", <<>>, 0), p + 1)
  ELSE IF t[p] = "s" THEN ParseOk(JVal("string", <<>>, 1), p + 1)
  ELSE IF t[p] = "f" THEN ParseOk(JVal("string", <<>>, 3), p + 1)
  ELSE IF t[p] = "e" THEN ParseOk(JVal("string", <<>>, 0), p + 1)
  ELSE IF t[p] = "n" THEN ParseOk(JVal("null", <<>>, 0), p + 1)
  ELSE IF t[p] = "1"
    THEN LET e == SkipDigits(t, p) IN ParseOk(JVal("number", <<>>, e - p), e)
  ELSE IF t[p] = "["
    THEN LET q == SkipWs(t, p + 1) IN
         IF q <= Len(t) /\ t[q] = "]" THEN ParseOk(EmptyArray, q + 1)
         ELSE ParseElems(t, p + 1, <<>>)
  ELSE ParseFail

ParseElems(t, i, acc) ==
  LET v == ParseValue(t, i) IN
  IF ~v.ok THEN ParseFail
  ELSE LET q == SkipWs(t, v.next) IN
       IF q > Len(t) THEN ParseFail
       ELSE IF t[q] = "," THEN ParseElems(t, q + 1, Append(acc, v.val))
       ELSE IF t[q] = "]" THEN ParseOk(JArray(Append(acc, v.val)), q + 1)
       ELSE ParseFail

\* JSON.parse(text): ok = FALSE stands for the SyntaxError it throws
JSONParse(t) ==
  LET v == ParseValue(t, 1) IN
  IF v.ok /\ SkipWs(t, v.next) > Len(t) THEN [ok |-> TRUE, val |-> v.val]
  ELSE [ok |-> FALSE, val |-> ParseFail.val]

\* ------------------------------------------------------------------------
\* Reply normalisation of fetchRecommendations
\* ------------------------------------------------------------------------

\* text.replace(/```json/g, '')
RECURSIVE StripFenceJson(_)
StripFenceJson(t) ==
  IF t = <<>> THEN <<>>
  ELSE IF Len(t) >= 2 /\ t[1] = "F" /\ t[2] = "J"
    THEN StripFenceJson(SubSeq(t, 3, Len(t)))
  ELSE <<t[1]>> \o StripFenceJson(Tail(t))

\* text.replace(/```/g, ''): every ``` goes, wherever it stands, so the
\* string literal "```" becomes ""
StripFence(t) ==
  LET kept == SelectSeq(t, LAMBDA c : c # "F") IN
  IF kept = <<>> THEN <<>>
  ELSE [i \in 1..Len(kept) |-> IF kept[i] = "f" THEN "e" ELSE kept[i]]

RECURSIVE TrimLeft(_)
TrimLeft(t) ==
  IF t # <<>> /\ t[1] = " " THEN TrimLeft(Tail(t)) ELSE t

RECURSIVE TrimRight(_)
TrimRight(t) ==
  IF t # <<>> /\ t[Len(t)] = " " THEN TrimRight(SubSeq(t, 1, Len(t) - 1))
  ELSE t

\* String.prototype.trim
Trim(t) == TrimRight(TrimLeft(t))

\* String.prototype.indexOf, 0-based, -1 when absent
IndexOf(t, c) ==
  IF \E i \in 1..Len(t) : t[i] = c
  THEN (CHOOSE i \in 1..Len(t) : t[i] = c /\ \A j \in 1..(i - 1) : t[j] # c) - 1
  ELSE -1

\* String.prototype.lastIndexOf, 0-based, -1 when absent
LastIndexOf(t, c) ==
  IF \E i \in 1..Len(t) : t[i] = c
  THEN (CHOOSE i \in 1..Len(t) :
          t[i] = c /\ \A j \in (i + 1)..Len(t) : t[j] # c) - 1
  ELSE -1

\* String.prototype.substring(a, b), 0-based, the arguments swapped when a > b
Substring(t, a, b) == SubSeq(t, Min(a, b) + 1, Max(a, b))

\* lines 157-163: the text handed to JSON.parse
Normalize(raw) ==
  LET text == Trim(StripFence(StripFenceJson(raw)))
      startIndex == IndexOf(text, "[")
      endIndex == LastIndexOf(text, "]")
  IN IF startIndex # -1 /\ endIndex # -1
     THEN Substring(text, startIndex, endIndex + 1)
     ELSE text

\* what the generation service does with one call: it rejects, or it
\* resolves with a text (<<>> stands for an empty or absent response.text)
Rejected == [ok |-> FALSE, text |-> <<>>]

Resolved(t) == [ok |-> TRUE, text |-> t]

\* fetchRecommendations without line 155: an empty text goes to JSON.parse
FetchOutcome_EmptyThrows(resp) ==
  IF ~resp.ok THEN [threw |-> TRUE, data |-> ParseFail.val]
  ELSE LET p == JSONParse(Normalize(resp.text)) IN
       IF p.ok THEN [threw |-> FALSE, data |-> p.val]
       ELSE [threw |-> TRUE, data |-> ParseFail.val]

\* lines 143-169: the settlement of the promise fetchRecommendations returns
FetchOutcome(resp) ==
  IF ~resp.ok THEN [threw |-> TRUE, data |-> ParseFail.val]
  ELSE IF resp.text = <<>> THEN [threw |-> FALSE, data |-> EmptyArray]
  ELSE LET p == JSONParse(Normalize(resp.text)) IN
       IF p.ok THEN [threw |-> FALSE, data |-> p.val]
       ELSE [threw |-> TRUE, data |-> ParseFail.val]

\* ------------------------------------------------------------------------
\* Query construction of fetchRecommendations
\* ------------------------------------------------------------------------

CITIES == {"Dubai", "Abu Dhabi", "Sharjah"}

\* the entries of CUISINES the query derivation tells apart, and one other
CUISINES == {"Trending", "Chinese", "Turkish"}

\* values of the search input, as character sequences: the empty input
\* and a word with whitespace around it
Queries == {<<>>, <<" ", "q", " ">>}

\* positions the geolocation provider may report
Positions == {[lat |-> 25, lng |-> 55], [lat |-> 24, lng |-> 54]}

TrendingTerm == <<"popular trending restaurants">>

ChineseTerm ==
  <<"Chinese restaurants, including options in Motor City, Sports City, and Dubai Production City. Also include popular Fusion Chinese (Indo-Chinese) spots.">>

\* lines 101-108 without the Chinese branch
QueryTerm_ChineseAsOther(cuis) ==
  IF cuis = "Trending" THEN TrendingTerm
  ELSE <<cuis, " restaurants">>

\* lines 101-108
QueryTerm(cuis) ==
  IF cuis = "Trending" THEN TrendingTerm
  ELSE IF cuis = "Chinese" THEN ChineseTerm
  ELSE <<cuis, " restaurants">>

\* line 111
FoodQuery(cuis, customQ) ==
  IF Trim(customQ) # <<>> THEN customQ ELSE QueryTerm(cuis)

\* the radius of a search around the live position, in km (line 117)
RadiusKm == 8

\* the number of places asked for (lines 117, 133)
PlacesAsked == 30

\* lines 113-152 with the city prompt of line 133 in both branches
Request_CityAlways(loc, cty, cuis, customQ) ==
  IF loc.usingGPS
  THEN [foodQuery |-> FoodQuery(cuis, customQ), places |-> PlacesAsked,
        radius |-> 0, promptLat |-> 0, promptLng |-> 0,
        promptCity |-> cty,
        hinted |-> TRUE, latitude |-> loc.lat, longitude |-> loc.lng]
  ELSE [foodQuery |-> FoodQuery(cuis, customQ), places |-> PlacesAsked,
        radius |-> 0, promptLat |-> 0, promptLng |-> 0,
        promptCity |-> cty,
        hinted |-> FALSE, latitude |-> 0, longitude |-> 0]

\* lines 113-152: what the call to generateContent carries.  The prompt
\* names either the radius and the coordinates or the city; hint is the
\* retrievalConfig of toolConfig (hinted = FALSE: toolConfig is undefined)
Request(loc, cty, cuis, customQ) ==
  IF loc.usingGPS
  THEN [foodQuery |-> FoodQuery(cuis, customQ), places |-> PlacesAsked,
        radius |-> RadiusKm, promptLat |-> loc.lat, promptLng |-> loc.lng,
        promptCity |-> "",
        hinted |-> TRUE, latitude |-> loc.lat, longitude |-> loc.lng]
  ELSE [foodQuery |-> FoodQuery(cuis, customQ), places |-> PlacesAsked,
        radius |-> 0, promptLat |-> 0, promptLng |-> 0,
        promptCity |-> cty,
        hinted |-> FALSE, latitude |-> 0, longitude |-> 0]

\* ------------------------------------------------------------------------
\* State of the App component
\* ------------------------------------------------------------------------

NoError == "null"

NoResultsMsg == "No restaurants found. Try a different area or cuisine."

BusyMsg == "AI is busy analyzing tasty food. Please try again."

LocationMsg == "Could not access location. Please check permissions."

UnsupportedMsg == "Geolocation is not supported by this browser."

\* replies of the generation service tried on every outbound call
SampleReplies ==
  { <<>>,                                          \* empty / absent text
    <<"[", "]">>,                                  \* []
    <<"[", "O", "]">>,                             \* [{}]
    <<"F", "J", " ", "[", "O", "]", " ", "F">>,    \* fenced array
    <<"x", " ", "[", "O", "]", " ", "x">>,         \* array inside prose
    <<"x", " ", "x">>,                             \* not json at all
    <<"O">>,                                       \* an object
    <<"1">>,                                       \* a number
    <<"s">>,                                       \* a string
    <<"n">> }                                      \* null

Responses == {Rejected} \cup {Resolved(t) : t \in SampleReplies}

VARIABLES
  location,     \* useState: {lat, lng, usingGPS}
  city,         \* useState
  cuisine,      \* useState
  customQuery,  \* useState
  results,      \* useState
  loading,      \* useState
  loadingStep,  \* useState
  error,        \* useState
  hasGeo,       \* navigator.geolocation is present on the host
  geoPending,   \* getCurrentPosition requests not yet called back, each
                \* with the values its callbacks closed over
  inflight,     \* fetchRecommendations promises not yet settled
  seq,          \* number of searches started so far; tags each search
  issued,       \* tags of the searches whose outbound call was invoked
  geoFailed,    \* tags of the GPS searches whose error callback ran
  edits,        \* number of criteria edits so far
  calls,        \* number of generateContent invocations so far
  arg,          \* argument of the function a function run applies
  ret           \* its result, once applied

vars == <<location, city, cuisine, customQuery, results, loading,
          loadingStep, error, hasGeo, geoPending, inflight, seq, issued,
          geoFailed, edits, calls, arg, ret>>

\* no function run is under way
NoArg == [given |-> FALSE]

NoRet == [done |-> FALSE]

\* lines 469-476
AppInit ==
  /\ location = [lat |-> 0, lng |-> 0, usingGPS |-> FALSE]
  /\ city = "Dubai"
  /\ cuisine = "Trending"
  /\ customQuery = <<>>
  /\ results = EmptyArray
  /\ loading = FALSE
  /\ loadingStep = 0
  /\ error = NoError
  /\ hasGeo \in BOOLEAN
  /\ geoPending = {}
  /\ inflight = {}
  /\ seq = 0
  /\ issued = {}
  /\ geoFailed = {}
  /\ edits = 0
  /\ calls = 0

Init == AppInit /\ arg = NoArg /\ ret = NoRet

\* lines 496-505: the effect on [loading] restarts the step counter when
\* loading turns true; it leaves it alone otherwise
LoadingStepsEffect(newLoading) ==
  loadingStep' = IF newLoading /\ ~loading THEN 0 ELSE loadingStep

\* lines 507-513: executeSearch up to its await; the call it makes is
\* outstanding afterwards
ExecuteSearch(loc, selectedCity, selectedCuisine, query, id) ==
  /\ loading' = TRUE
  /\ error' = NoError
  /\ results' = EmptyArray
  /\ LoadingStepsEffect(TRUE)
  /\ inflight' = inflight \cup
       {[id |-> id, loc |-> loc, city |-> selectedCity,
         cuisine |-> selectedCuisine, query |-> query]}
  /\ issued' = issued \cup {id}
  /\ calls' = calls + 1

\* lines 525-527
HandleSearch ==
  /\ seq + edits < MaxCommands
  /\ seq' = seq + 1
  /\ ExecuteSearch(location, city, cuisine, customQuery, seq + 1)
  /\ UNCHANGED <<location, city, cuisine, customQuery, hasGeo, geoPending,
                 geoFailed, edits>>
  /\ UNCHANGED <<arg, ret>>

\* lines 600-603: the button, disabled while loading
ClickSearch == ~loading /\ HandleSearch

\* line 589: Enter in the search input, whatever loading is
EnterSearch == HandleSearch

\* lines 529-532, 548-553 and 611-613: the GPS button, rendered while
\* location.usingGPS is false
HandleGPSRequest ==
  /\ ~location.usingGPS
  /\ IF hasGeo
     THEN /\ seq + edits < MaxCommands
          /\ seq' = seq + 1
          /\ loading' = TRUE
          /\ LoadingStepsEffect(TRUE)
          /\ geoPending' = geoPending \cup
               {[id |-> seq + 1, city |-> city, cuisine |-> cuisine,
                 customQuery |-> customQuery]}
          /\ UNCHANGED error
     ELSE /\ error' = UnsupportedMsg
          /\ UNCHANGED <<seq, loading, loadingStep, geoPending>>
  /\ UNCHANGED <<location, city, cuisine, customQuery, results, hasGeo,
                 inflight, issued, geoFailed, edits>>
  /\ UNCHANGED <<calls, arg, ret>>

\* the success callback searching with the location state it closed over
\* instead of the position it was handed
GeoSuccess_StaleLocation(g, pos) ==
  /\ g \in geoPending
  /\ geoPending' = geoPending \ {g}
  /\ LET newLoc == [lat |-> pos.lat, lng |-> pos.lng, usingGPS |-> TRUE] IN
       /\ location' = newLoc
       /\ ExecuteSearch(location, g.city, g.cuisine, g.customQuery, g.id)
  /\ UNCHANGED <<city, cuisine, customQuery, hasGeo, seq, geoFailed, edits>>
  /\ UNCHANGED <<arg, ret>>

\* the success callback reading the cuisine and the search input of the
\* render in which the position arrives
GeoSuccess_CurrentCriteria(g, pos) ==
  /\ g \in geoPending
  /\ geoPending' = geoPending \ {g}
  /\ LET newLoc == [lat |-> pos.lat, lng |-> pos.lng, usingGPS |-> TRUE] IN
       /\ location' = newLoc
       /\ ExecuteSearch(newLoc, g.city, cuisine, customQuery, g.id)
  /\ UNCHANGED <<city, cuisine, customQuery, hasGeo, seq, geoFailed, edits>>
  /\ UNCHANGED <<arg, ret>>

\* lines 533-542: the success callback of getCurrentPosition
GeoSuccess(g, pos) ==
  /\ g \in geoPending
  /\ geoPending' = geoPending \ {g}
  /\ LET newLoc == [lat |-> pos.lat, lng |-> pos.lng, usingGPS |-> TRUE] IN
       /\ location' = newLoc
       /\ ExecuteSearch(newLoc, g.city, g.cuisine, g.customQuery, g.id)
  /\ UNCHANGED <<city, cuisine, customQuery, hasGeo, seq, geoFailed, edits>>
  /\ UNCHANGED <<arg, ret>>

\* the error callback without its setLoading(false)
GeoFailure_KeepsLoading(g) ==
  /\ g \in geoPending
  /\ geoPending' = geoPending \ {g}
  /\ error' = LocationMsg
  /\ UNCHANGED <<loading, loadingStep>>
  /\ geoFailed' = geoFailed \cup {g.id}
  /\ UNCHANGED <<location, city, cuisine, customQuery, results, hasGeo,
                 inflight, seq, issued, edits>>
  /\ UNCHANGED <<calls, arg, ret>>

\* lines 543-547: the error callback of getCurrentPosition
GeoFailure(g) ==
  /\ g \in geoPending
  /\ geoPending' = geoPending \ {g}
  /\ error' = LocationMsg
  /\ loading' = FALSE
  /\ LoadingStepsEffect(FALSE)
  /\ geoFailed' = geoFailed \cup {g.id}
  /\ UNCHANGED <<location, city, cuisine, customQuery, results, hasGeo,
                 inflight, seq, issued, edits>>
  /\ UNCHANGED <<calls, arg, ret>>

\* data.length as JavaScript evaluates it: -1 stands for undefined
JsLength(v) ==
  IF v.kind = "array" THEN Len(v.items)
  ELSE IF v.kind = "string" THEN v.len
  ELSE -1

\* executeSearch calling the service once more when its call has failed
FetchDone_Retries(f, resp) ==
  /\ f \in inflight
  /\ inflight' = inflight \ {f}
  /\ LET o == FetchOutcome(resp) IN
       IF o.threw
       THEN /\ error' = BusyMsg
            /\ UNCHANGED results
            /\ calls' = calls + 1
       ELSE /\ results' = o.data
            /\ error' = IF o.data.kind = "null" THEN BusyMsg
                        ELSE IF JsLength(o.data) = 0 THEN NoResultsMsg
                        ELSE error
            /\ UNCHANGED calls
  /\ loading' = FALSE
  /\ LoadingStepsEffect(FALSE)
  /\ UNCHANGED <<location, city, cuisine, customQuery, hasGeo, geoPending,
                 seq, issued, geoFailed, edits>>
  /\ UNCHANGED <<arg, ret>>

\* lines 513-522: executeSearch from the settlement of its await on
\* (reading .length of null throws a TypeError inside the try)
FetchDone(f, resp) ==
  /\ f \in inflight
  /\ inflight' = inflight \ {f}
  /\ LET o == FetchOutcome(resp) IN
       IF o.threw
       THEN /\ error' = BusyMsg
            /\ UNCHANGED results
       ELSE /\ results' = o.data
            /\ error' = IF o.data.kind = "null" THEN BusyMsg
                        ELSE IF JsLength(o.data) = 0 THEN NoResultsMsg
                        ELSE error
  /\ loading' = FALSE
  /\ LoadingStepsEffect(FALSE)
  /\ UNCHANGED <<location, city, cuisine, customQuery, hasGeo, geoPending,
                 seq, issued, geoFailed, edits>>
  /\ UNCHANGED <<calls, arg, ret>>

\* line 594 without its setLocation
SelectCity_KeepsGPS(c) ==
  /\ seq + edits < MaxCommands
  /\ edits' = edits + 1
  /\ city' = c
  /\ UNCHANGED location
  /\ UNCHANGED <<cuisine, customQuery, results, loading, loadingStep, error,
                 hasGeo, geoPending, inflight, seq, issued, geoFailed>>
  /\ UNCHANGED <<calls, arg, ret>>

\* line 594
SelectCity(c) ==
  /\ seq + edits < MaxCommands
  /\ edits' = edits + 1
  /\ city' = c
  /\ location' = [location EXCEPT !.usingGPS = FALSE]
  /\ UNCHANGED <<cuisine, customQuery, results, loading, loadingStep, error,
                 hasGeo, geoPending, inflight, seq, issued, geoFailed>>
  /\ UNCHANGED <<calls, arg, ret>>

\* lines 555-556 without the setCustomQuery("") of line 557
HandleCuisineSelect_KeepsQuery(c) ==
  /\ seq + edits < MaxCommands
  /\ edits' = edits + 1
  /\ cuisine' = c
  /\ UNCHANGED customQuery
  /\ UNCHANGED <<location, city, results, loading, loadingStep, error,
                 hasGeo, geoPending, inflight, seq, issued, geoFailed>>
  /\ UNCHANGED <<calls, arg, ret>>

\* lines 555-558
HandleCuisineSelect(c) ==
  /\ seq + edits < MaxCommands
  /\ edits' = edits + 1
  /\ cuisine' = c
  /\ customQuery' = <<>>
  /\ UNCHANGED <<location, city, results, loading, loadingStep, error,
                 hasGeo, geoPending, inflight, seq, issued, geoFailed>>
  /\ UNCHANGED <<calls, arg, ret>>

\* line 586
TypeQuery(q) ==
  /\ seq + edits < MaxCommands
  /\ edits' = edits + 1
  /\ customQuery' = q
  /\ UNCHANGED <<location, city, cuisine, results, loading, loadingStep,
                 error, hasGeo, geoPending, inflight, seq, issued, geoFailed>>
  /\ UNCHANGED <<calls, arg, ret>>

\* the interval of lines 500-502 never cleared (no cleanup at line 504)
Tick_NeverCleared ==
  /\ issued # {} \/ geoPending # {} \/ geoFailed # {}
  /\ loadingStep' = (loadingStep + 1) % 5
  /\ UNCHANGED <<location, city, cuisine, customQuery, results, loading,
                 error, hasGeo, geoPending, inflight, seq, issued, geoFailed,
                 edits>>
  /\ UNCHANGED <<calls, arg, ret>>

\* lines 500-502: the interval runs while loading
Tick ==
  /\ loading
  /\ loadingStep' = (loadingStep + 1) % 5
  /\ UNCHANGED <<location, city, cuisine, customQuery, results, loading,
                 error, hasGeo, geoPending, inflight, seq, issued, geoFailed,
                 edits>>
  /\ UNCHANGED <<calls, arg, ret>>

Next ==
  \/ ClickSearch
  \/ EnterSearch
  \/ HandleGPSRequest
  \/ \E g \in geoPending : \E pos \in Positions : GeoSuccess(g, pos)
  \/ \E g \in geoPending : GeoFailure(g)
  \/ \E f \in inflight : \E resp \in Responses : FetchDone(f, resp)
  \/ \E c \in CITIES : SelectCity(c)
  \/ \E c \in CUISINES : HandleCuisineSelect(c)
  \/ \E q \in Queries : TypeQuery(q)
  \/ Tick

Spec == Init /\ [][Next]_vars

\* a callback of an outstanding position request runs
GeoSettles ==
  \/ \E g \in geoPending : \E pos \in Positions : GeoSuccess(g, pos)
  \/ \E g \in geoPending : GeoFailure(g)

\* the await of an outstanding call settles
FetchSettles == \E f \in inflight : \E resp \in Responses : FetchDone(f, resp)

\* outstanding work does not stay outstanding for ever: while a position
\* request or a call is outstanding, one of them settles (less than the
\* browser and the service give, which settle each of them); the user
\* issues MaxCommands commands at most
FairSpec == Spec /\ WF_vars(GeoSettles \/ FetchSettles)

\* ------------------------------------------------------------------------
\* Runs of fetchRecommendations alone
\* ------------------------------------------------------------------------

\* the state of the App component, which a run of the function leaves alone
appVars == <<location, city, cuisine, customQuery, results, loading,
             loadingStep, error, hasGeo, geoPending, inflight, seq, issued,
             geoFailed, edits, calls>>

\* the lexemes reply texts are made of
ReplyAlphabet == {"[", "]", ",", "O", "1", "x", " ", "F", "J", "f"}

\* every text of at most MaxReplyLen lexemes
ReplyTexts == UNION {[1..n -> ReplyAlphabet] : n \in 0..MaxReplyLen}

\* what the service puts before a text: nothing, an opening fence,
\* prose without brackets, whitespace, or all of them
Prefixes ==
  { <<>>, <<"F", "J", " ">>, <<"x", " ">>, <<" ">>,
    <<"x", " ", "F", "J", " ">> }

\* what the service puts after a text
Suffixes ==
  { <<>>, <<" ", "F">>, <<" ", "x">>, <<" ">>,
    <<" ", "F", " ", "x", " ">> }

\* response.text is pre, inner, suf in a row
NormInit ==
  /\ AppInit
  /\ hasGeo
  /\ arg \in [given : {TRUE}, pre : Prefixes, inner : ReplyTexts,
              suf : Suffixes]
  /\ ret = NoRet

\* lines 154-169 applied to the resolved response
NormalizeReply ==
  /\ arg.given
  /\ ~ret.done
  /\ ret' = LET raw == arg.pre \o arg.inner \o arg.suf IN
            [done |-> TRUE, text |-> Normalize(raw),
             out |-> FetchOutcome(Resolved(raw))]
  /\ UNCHANGED <<appVars, arg>>

NormNext == NormalizeReply

NormSpec == NormInit /\ [][NormNext]_vars

\* the names of CUISINES, lines 51-64
CuisineNames ==
  {"Trending", "Turkish", "Shawarma", "Mandi", "Chinese", "Burgers", "Sushi",
   "Italian", "Indian", "Coffee", "Healthy", "Dessert"}

\* every search-input value of at most MaxQueryLen characters, each a
\* space or a letter
QueryTexts == UNION {[1..n -> {" ", "q"}] : n \in 0..MaxQueryLen}

\* the location argument: the initial one, and live or abandoned positions
Locations ==
  [lat : {0, 24, 25}, lng : {0, 54, 55}, usingGPS : BOOLEAN]

BuildInit ==
  /\ AppInit
  /\ hasGeo
  /\ arg \in [given : {TRUE}, loc : Locations, city : CITIES,
              cuisine : CuisineNames, customQuery : QueryTexts]
  /\ ret = NoRet

\* lines 100-152 applied to the arguments
BuildRequest ==
  /\ arg.given
  /\ ~ret.done
  /\ ret' = [done |-> TRUE,
             req |-> Request(arg.loc, arg.city, arg.cuisine, arg.customQuery)]
  /\ UNCHANGED <<appVars, arg>>

BuildNext == BuildRequest

BuildSpec == BuildInit /\ [][BuildNext]_vars

\* ------------------------------------------------------------------------
\* The search lifecycle as the component shows it
\* ------------------------------------------------------------------------

FailureMsgs == {BusyMsg, LocationMsg, UnsupportedMsg}

\* lines 632-635: the result grid is shown when results.length > 0
ResultsShown == JsLength(results) > 0

\* The phase of the lifecycle, read off the component's state (lines
\* 473-476, 623-648): waiting while loading is set, for the position when
\* the search started last still awaits getCurrentPosition and for the
\* reply otherwise; failed when a failure message is up; succeeded when
\* results were stored or the no-results notice is up.
Phase ==
  IF loading
  THEN IF \E g \in geoPending : g.id = seq THEN "Locating" ELSE "Loading"
  ELSE IF error \in FailureMsgs THEN "Error"
  ELSE IF results # EmptyArray \/ error = NoResultsMsg THEN "Success"
  ELSE "Idle"

\* a started search: one of the two commands ran on a host where it starts
\* a search
CitySearchStarts == ClickSearch \/ EnterSearch

GPSSearchStarts == hasGeo /\ HandleGPSRequest

\* the settlement of the call of a search that is no longer the one
\* started last
StaleFetchDone ==
  \E f \in inflight : f.id < seq /\ \E resp \in Responses : FetchDone(f, resp)

\* ------------------------------------------------------------------------
\* C1
\* ------------------------------------------------------------------------

\* C1: the completion of an outbound call whose search is no longer the
\* most recently started one is discarded: it changes neither results nor
\* errorMessage nor the phase.
C1_StaleCompletionDiscarded ==
  [][StaleFetchDone =>
       (results' = results /\ error' = error /\ Phase' = Phase)]_vars

\* ------------------------------------------------------------------------
\* C2
\* ------------------------------------------------------------------------

\* C2: immediately after a search is started, from any phase, results is
\* empty and errorMessage is unset, and the phase is Loading after a
\* city/manual start and Locating after a GPS start.
C2_StartDiscardsOutcome ==
  [][/\ CitySearchStarts =>
          (results' = EmptyArray /\ error' = NoError /\ Phase' = "Loading")
     /\ GPSSearchStarts =>
          (results' = EmptyArray /\ error' = NoError /\ Phase' = "Locating")
    ]_vars

\* ------------------------------------------------------------------------
\* C3
\* ------------------------------------------------------------------------

\* C3: in every reachable state results is non-empty only when the phase is
\* Success.
C3_ResultsOnlyInSuccess == ResultsShown => Phase = "Success"

\* ------------------------------------------------------------------------
\* C4
\* ------------------------------------------------------------------------

\* C4: in every reachable state errorMessage is set only in the Error
\* phase, or as the no-results notice of a Success with empty results; it
\* is never set while Locating or Loading nor together with non-empty
\* results.
C4_ErrorOnlyInError ==
  error # NoError =>
    /\ \/ Phase = "Error"
       \/ Phase = "Success" /\ error = NoResultsMsg /\ results = EmptyArray
    /\ ~ResultsShown

\* ------------------------------------------------------------------------
\* C5
\* ------------------------------------------------------------------------

C6_GeoFailureGoesToError ==
  /\ [](geoFailed \cap issued = {})
  /\ [][\A g \in geoPending :
          GeoFailure(g) =>
            /\ Phase' = "Error"
            /\ error' = LocationMsg
            /\ location' = location
            /\ inflight' = inflight
            /\ issued' = issued
       ]_vars

\* a position request failed from the Locating phase
C6_Witness ==
  /\ geoFailed # {}
  /\ seq \in geoFailed
  /\ Phase = "Error"
  /\ error = LocationMsg
  /\ ~location.usingGPS

\* ------------------------------------------------------------------------
\* C7
\* ------------------------------------------------------------------------

\* C7: on a host without the geolocation capability a GPS search command,
\* from any phase, leaves the phase Error with an error message set, asks
\* the provider for no position and invokes no outbound call.
C7_UnsupportedGoesToError ==
  [][(~hasGeo /\ HandleGPSRequest) =>
       /\ Phase' = "Error"
       /\ error' # NoError
       /\ geoPending' = {}
       /\ inflight' = inflight
       /\ issued' = issued
    ]_vars

\* ------------------------------------------------------------------------
\* C8
\* ------------------------------------------------------------------------

\* replies that are empty or absent, or the empty array
EmptyReplies ==
  {r \in Responses : r.ok /\ (r.text = <<>> \/ r.text = <<"[", "]">>)}

\* replies on which the call fails
FailingResponses == {r \in Responses : FetchOutcome(r).threw}

\* C8: an empty or absent reply, and the reply [], make the call succeed
\* with an empty sequence; the completion then leaves the phase Success
\* with empty results and the no-results notice, which is not the Error
\* phase a failed call leaves.
C8_EmptyReplyIsSuccess ==
  [][\A f \in inflight :
       /\ \A resp \in EmptyReplies :
            FetchDone(f, resp) =>
              /\ ~FetchOutcome(resp).threw
              /\ FetchOutcome(resp).data = EmptyArray
              /\ results' = EmptyArray
              /\ error' = NoResultsMsg
              /\ Phase' = "Success"
       /\ \A resp \in FailingResponses :
            FetchDone(f, resp) => (Phase' = "Error" /\ error' # NoResultsMsg)
    ]_vars

\* a search ended with nothing found
C8_Witness ==
  /\ issued # {}
  /\ inflight = {}
  /\ Phase = "Success"
  /\ results = EmptyArray
  /\ error = NoResultsMsg

\* ------------------------------------------------------------------------
\* C9
\* ------------------------------------------------------------------------

\* C9: when the outbound call of the search started last fails (the
\* service rejects, or the reply cannot be parsed), the phase becomes
\* Error, errorMessage is the one service-busy message and results is
\* empty.
C9_FailureGoesToError ==
  [][\A f \in inflight : \A resp \in FailingResponses :
       (f.id = seq /\ FetchDone(f, resp)) =>
         /\ Phase' = "Error"
         /\ error' = BusyMsg
         /\ results' = EmptyArray
    ]_vars

\* ------------------------------------------------------------------------
\* C10
\* ------------------------------------------------------------------------

\* C10: a call that succeeds yields a JSON array, so results always holds
\* a sequence.
C10_ResultsIsSequence == results.kind = "array"

\* ------------------------------------------------------------------------
\* C11
\* ------------------------------------------------------------------------

\* response.text of the run
RawReply == arg.pre \o arg.inner \o arg.suf

\* the reply with its fence markers removed, trimmed
Stripped == Trim(StripFence(StripFenceJson(RawReply)))

HasBrackets == IndexOf(Stripped, "[") # -1 /\ LastIndexOf(Stripped, "]") # -1

\* the lexemes from the first "[" to the last "]", both included (none
\* when the last "]" stands before the first "[")
BracketSpan ==
  SubSeq(Stripped, IndexOf(Stripped, "[") + 1, LastIndexOf(Stripped, "]") + 1)

\* C11: a non-empty reply that, fence markers removed and trimmed, lacks
\* "[" or "]" and is not JSON as it stands makes the call fail; so does a
\* reply with both brackets whose span from the first "[" to the last "]"
\* is not JSON.
C11_MalformedReplyFails ==
  ret.done =>
    /\ (RawReply # <<>> /\ ~HasBrackets /\ ~JSONParse(Stripped).ok)
          => ret.out.threw
    /\ (HasBrackets /\ ~JSONParse(BracketSpan).ok) => ret.out.threw

\* ------------------------------------------------------------------------
\* C12
\* ------------------------------------------------------------------------

\* JSON.parse of the text the reply wraps
InnerParsed == JSONParse(arg.inner)

\* C12: when the wrapped text A is a valid JSON array text, the reply (A
\* inside code-fence markers, bracket-free prose and whitespace, in any
\* combination) normalises to the array that parsing A directly gives,
\* and the text parsed is the fence-stripped text from its first "[" to
\* its last "]".
C12_WrappingInvariant ==
  (ret.done /\ InnerParsed.ok /\ InnerParsed.val.kind = "array") =>
    /\ ~ret.out.threw
    /\ ret.out.data = InnerParsed.val
    /\ ret.text = BracketSpan

\* ------------------------------------------------------------------------
\* C13
\* ------------------------------------------------------------------------

\* the request is the radius search around the coordinates of loc
GPSMode(req, loc) ==
  /\ req.radius = RadiusKm
  /\ req.promptLat = loc.lat /\ req.promptLng = loc.lng
  /\ req.hinted
  /\ req.latitude = loc.lat /\ req.longitude = loc.lng
  /\ req.promptCity \notin CITIES

\* the request is the search in the city named cty
CityMode(req, cty) ==
  /\ req.promptCity = cty
  /\ ~req.hinted
  /\ req.radius = 0

\* C13: location.usingGPS alone chooses the grounding.  When it is true
\* the request is bounded by the radius around the coordinates of
\* location, carries the hint with exactly these coordinates and names no
\* city, whatever city is selected; when it is false the request names
\* the selected city and carries no hint.  Exactly one of the two holds.
C13_GroundingByUsingGPS ==
  ret.done =>
    /\ arg.loc.usingGPS => GPSMode(ret.req, arg.loc)
    /\ ~arg.loc.usingGPS => CityMode(ret.req, arg.city)
    /\ GPSMode(ret.req, arg.loc) # CityMode(ret.req, arg.city)

\* a request built for a live position while Sharjah is selected
C13_Witness ==
  /\ ret.done
  /\ arg.loc = [lat |-> 25, lng |-> 55, usingGPS |-> TRUE]
  /\ arg.city = "Sharjah"
  /\ ret.req.hinted
  /\ ret.req.latitude = 25 /\ ret.req.longitude = 55

\* ------------------------------------------------------------------------
\* C14
\* ------------------------------------------------------------------------

\* C14: a search input that is not empty once trimmed is, trimmed, the
\* subject of the request, whatever the cuisine; an empty or
\* whitespace-only input leaves the subject to the cuisine rule.
C14_SubjectIsTrimmedInput ==
  ret.done =>
    IF Trim(arg.customQuery) # <<>>
    THEN ret.req.foodQuery = Trim(arg.customQuery)
    ELSE ret.req.foodQuery = QueryTerm(arg.cuisine)

\* ------------------------------------------------------------------------
\* C15
\* ------------------------------------------------------------------------

\* C15: with an empty search input the subject comes from the cuisine:
\* Trending gives the trending query, Chinese the query naming the
\* satellite districts and the fusion variants, any other cuisine c
\* gives c followed by " restaurants".
C15_SubjectFromCuisine ==
  (ret.done /\ arg.customQuery = <<>>) =>
    ret.req.foodQuery =
      CASE arg.cuisine = "Trending" -> <<"popular trending restaurants">>
        [] arg.cuisine = "Chinese" ->
             <<"Chinese restaurants, including options in Motor City, Sports City, and Dubai Production City. Also include popular Fusion Chinese (Indo-Chinese) spots.">>
        [] OTHER -> <<arg.cuisine, " restaurants">>

\* a request built for Chinese with an empty search input
C15_Witness ==
  /\ ret.done
  /\ arg.customQuery = <<>>
  /\ arg.cuisine = "Chinese"
  /\ ret.req.foodQuery = ChineseTerm

\* ------------------------------------------------------------------------
\* C16
\* ------------------------------------------------------------------------

\* the success callback of some position request runs
GeoSucceeds ==
  \E g \in geoPending : \E pos \in Positions : GeoSuccess(g, pos)

\* C16: a search started from the button or the input, and a position
\* request that succeeds, each make exactly one outbound call; no other
\* step makes one (a failed call is not retried, nothing calls without a
\* search).  So the number of calls is the number of searches started
\* less the position requests still outstanding or failed.
C16_OneCallPerSearch ==
  [][/\ IF CitySearchStarts \/ GeoSucceeds
        THEN calls' = calls + 1
        ELSE calls' = calls
     /\ calls' = seq' - Cardinality(geoPending') - Cardinality(geoFailed')
    ]_vars

\* two searches, one through the position request, and the call of the
\* first has failed
C16_Witness ==
  /\ calls = 2
  /\ location.usingGPS
  /\ error = BusyMsg
  /\ Cardinality(inflight) = 1

\* ------------------------------------------------------------------------
\* C17
\* ------------------------------------------------------------------------

\* C17: selecting a city sets location.usingGPS to false whatever it was,
\* and leaves the stored coordinates, the cuisine, the search input, the
\* phase, the results and the error as they are; it starts no search.
C17_CityChangeOnlyDropsGPS ==
  [][\A c \in CITIES :
       SelectCity(c) =>
         /\ city' = c
         /\ ~location'.usingGPS
         /\ location'.lat = location.lat /\ location'.lng = location.lng
         /\ cuisine' = cuisine
         /\ customQuery' = customQuery
         /\ Phase' = Phase
         /\ results' = results
         /\ error' = error
         /\ seq' = seq /\ calls' = calls
         /\ geoPending' = geoPending /\ inflight' = inflight
    ]_vars

\* a city selected after a position was acquired: the coordinates stay
C17_Witness ==
  /\ ~location.usingGPS
  /\ location.lat = 25 /\ location.lng = 55
  /\ city = "Sharjah"
  /\ calls = 1

\* ------------------------------------------------------------------------
\* C18
\* ------------------------------------------------------------------------

\* C18: when every position request gets a callback and every call
\* settles, and the user stops starting searches, every state in which a
\* search is waiting (phase Locating or Loading) is followed by a state
\* with phase Success or Error, also when searches overlap.
C18_SearchEventuallySettles ==
  (Phase \in {"Locating", "Loading"}) ~> (Phase \in {"Success", "Error"})

\* two overlapping searches, both settled
C18_Witness ==
  /\ seq = 2
  /\ \E g \in geoFailed : g = 2
  /\ issued = {1}
  /\ inflight = {} /\ geoPending = {}
  /\ Phase \in {"Success", "Error"}

\* ------------------------------------------------------------------------
\* C19
\* ------------------------------------------------------------------------

\* the search started last still awaits its position or its call
LatestOutstanding ==
  \/ \E g \in geoPending : g.id = seq
  \/ \E f \in inflight : f.id = seq

\* C19: while the position request or the call of the search started
\* last is outstanding, the phase is Locating or Loading (so nothing that
\* completes later changes a Success or Error state).
C19_WaitingCoversOutstanding ==
  LatestOutstanding => Phase \in {"Locating", "Loading"}

\* ------------------------------------------------------------------------
\* C20
\* ------------------------------------------------------------------------

\* C20: right after every start of a search, from the button, the input
\* or the GPS button, also while an earlier search is still waiting,
\* loadingStep is 0.
C20_StepResetOnStart ==
  [][(CitySearchStarts \/ GPSSearchStarts) => loadingStep' = 0]_vars

\* ------------------------------------------------------------------------
\* C21
\* ------------------------------------------------------------------------

\* the phases in which a search waits
Waiting == {"Locating", "Loading"}

\* loadingStep goes to its successor among the five steps
StepAdvances == loadingStep' = (loadingStep + 1) % 5

\* C21: loadingStep lies in 0..4 and changes only by a tick, which
\* replaces it with (loadingStep + 1) mod 5 and happens only while the
\* phase is Locating or Loading; in Idle, Success and Error it does not
\* advance.
C21_StepOnlyTicks ==
  [][/\ loadingStep' \in 0..4
     /\ loadingStep' # loadingStep => (Phase \in Waiting /\ StepAdvances)
    ]_vars

\* C21, amended: loadingStep lies in 0..4 and changes only by a tick,
\* which replaces it with (loadingStep + 1) mod 5 and happens only while
\* the phase is Locating or Loading, or by the reset to 0 when the phase
\* enters Locating or Loading from Idle, Success or Error; while the
\* phase stays Idle, Success or Error it does not change.
C21_StepTicksOrResets ==
  [][/\ loadingStep' \in 0..4
     /\ loadingStep' # loadingStep =>
          \/ Phase \in Waiting /\ StepAdvances
          \/ Phase \notin Waiting /\ Phase' \in Waiting /\ loadingStep' = 0
    ]_vars

\* a search ticked through its steps and ended: the step stays where the
\* last tick left it
C21_Witness ==
  /\ issued # {}
  /\ Phase \in {"Success", "Error"}
  /\ loadingStep = 4

\* ------------------------------------------------------------------------
\* C22
\* ------------------------------------------------------------------------

\* C22: a position request records the cuisine and the search input of
\* the moment the GPS button is pressed, the record does not change while
\* the request is outstanding, and the call made when the position
\* arrives carries the recorded cuisine and input: what the user selects
\* or types in between is not in its request.
C22_GPSCallUsesCriteriaAtRequest ==
  [][/\ GPSSearchStarts =>
          \E g \in geoPending' \ geoPending :
            /\ g.id = seq'
            /\ g.cuisine = cuisine /\ g.customQuery = customQuery
     /\ \A g \in geoPending :
          /\ g \in geoPending' \/ (\A h \in geoPending' : h.id # g.id)
          /\ \A pos \in Positions :
               GeoSuccess(g, pos) =>
                 \E f \in inflight' \ inflight :
                   /\ f.id = g.id
                   /\ f.cuisine = g.cuisine /\ f.query = g.customQuery
                   /\ Request(f.loc, f.city, f.cuisine, f.query).foodQuery
                        = FoodQuery(g.cuisine, g.customQuery)
    ]_vars

\* the GPS button pressed twice with another cuisine selected in between,
\* and the position of the first request arrived: its call carries the
\* cuisine of the first press, not the one selected while it waited
C22_Witness ==
  \E f \in inflight : \E g \in geoPending :
    /\ f.loc.usingGPS
    /\ f.id < g.id
    /\ f.cuisine = "Trending"
    /\ g.cuisine = "Chinese" /\ cuisine = "Chinese"

\* ------------------------------------------------------------------------
\* C23
\* ------------------------------------------------------------------------

\* what neither criteria update touches: location, city, phase, results,
\* error, and the searches started and calls made
CriteriaFrame ==
  /\ location' = location
  /\ city' = city
  /\ Phase' = Phase
  /\ results' = results
  /\ error' = error
  /\ seq' = seq /\ calls' = calls
  /\ geoPending' = geoPending /\ inflight' = inflight

\* C23: selecting a cuisine sets cuisine to the selection and empties the
\* search input; typing sets the search input only and leaves cuisine as
\* it is.  Neither changes location, city, phase, results or error, and
\* neither starts a search.
C23_CriteriaUpdates ==
  [][/\ \A c \in CUISINES :
          HandleCuisineSelect(c) =>
            (cuisine' = c /\ customQuery' = <<>> /\ CriteriaFrame)
     /\ \A q \in Queries :
          TypeQuery(q) =>
            (customQuery' = q /\ cuisine' = cuisine /\ CriteriaFrame)
    ]_vars

\* a cuisine selected after something was typed: the input is empty
C23_Witness ==
  /\ edits = 2
  /\ seq = 1
  /\ cuisine = "Turkish"
  /\ customQuery = <<>>
  /\ \E f \in inflight : f.query # <<>>

====
